---- MODULE Spec2Model ----
(***************************************************************************)
(* A model of the structured-light scanner's console application:          *)
(* main() of src/Calibration/cvStructuredLight_Raj.cpp (startup, the       *)
(* command loop, shutdown), the scan and calibration operations it calls,  *)
(* and the Gray-code pattern pipeline those operations rest on.            *)
(***************************************************************************)
EXTENDS Integers, Sequences, FiniteSets, TLC

\* ------------------------------------------------------------------ bounds
\* Number of camera pixels of the background buffers (cam_w * cam_h).
NPix == 2
\* Largest scan index a session reaches (the s command is not typed beyond it).
MaxScans == 2
\* Largest number of Gray-code bits per axis.
MaxK == 4

\* ---------------------------------------------------------- program constants
\* Key codes compared against cvKey in the command loop.
KeyEsc == 27
KeyS == 115
KeyB == 98
KeyR == 114
KeyC == 99
KeyP == 112
KeyA == 97
KeyE == 101
\* cvKey = NULL: the initial value, the value after a handled command, and the
\* value _getch() returns as the first byte of an extended key.
KeyNull == 0
\* An unhandled key: the upper-case 'S' (Shift or Caps Lock held).
KeyUpperS == 83
\* The depth sentinel cvScalar(FLT_MAX); any value no scene depth equals.
FLT_MAX == 2147483647
\* cvSet(background_mask, cvScalar(255)).
MaskOn == 255
\* The exit code of the fatal startup returns (return -1).
ExitError == -1

\* A depth and a white-frame intensity a background capture produces.
ZScene == 500
FrameWhite == 255

Keys == {KeyEsc, KeyS, KeyB, KeyR, KeyC, KeyP, KeyA, KeyE, KeyNull, KeyUpperS}

\* The persisted calibration files cvLoad probes at startup.
CalibFiles == {"cam_intrinsic", "cam_distortion", "fundamental_matrix",
               "proj_intrinsic", "proj_distortion",
               "cam_extrinsic", "proj_extrinsic"}

Pixels == 1..NPix

VARIABLES
    pc,            \* position of main: the next block to execute
    returnLine,    \* source line of the return statement taken (0: running)
    exitCode,      \* value returned by main (meaningful when pc = "done")
    files,         \* the calibration files present under <outdir>/calib
    camera,        \* the CVCamera object: "none", "alive", "deleted"
    capture,       \* the capture session: "off", "started", "ended"
    window,        \* "projWindow": "none", "open", "destroyed"
    configWrites,  \* number of writeConfiguration calls
    sl_calib,      \* struct slCalib: flags, matrices, tables, background
    scan_index,    \* the scan counter
    cvKey,         \* the pending keystroke
    dispatched,    \* the key the last loop iteration parsed
    invoked,       \* the operation the last loop iteration called
    result,        \* how that operation ended: "none", "ok", "error"
    before,        \* sl_calib when that iteration began
    gray,          \* the Gray-code pipeline (pattern, frames, decoded code)
    adapterLog,    \* the calls made on the camera adapter, in order
    outdir,        \* <outdir>/<object>: "untouched", "removed", "recreated"
    heap,          \* matrix and image buffers: held, lost, released
    lastScan,      \* the index passed to the last runStructuredLight call
    kinect         \* a Kinect depth sample and its validity test

mainVars == <<pc, returnLine, exitCode, files, camera, capture, window,
              configWrites, sl_calib, scan_index, cvKey, dispatched, invoked,
              result, before, adapterLog, outdir, heap, lastScan>>
vars == <<pc, returnLine, exitCode, files, camera, capture, window,
          configWrites, sl_calib, scan_index, cvKey, dispatched, invoked,
          result, before, gray, adapterLog, outdir, heap, lastScan, kinect>>

\* ------------------------------------------------------- background model
\* cvSet(depth, FLT_MAX); cvZero(image); cvSet(mask, 255).
DefaultDepth == [p \in Pixels |-> FLT_MAX]
DefaultImage == [p \in Pixels |-> 0]
DefaultMask == [p \in Pixels |-> MaskOn]

\* A reset that forgets the reference image.
ResetBackgroundKeepImage(c) ==
    [c EXCEPT !.background_depth_map = DefaultDepth,
              !.background_mask = DefaultMask]

\* A reset that leaves the depth map as it was.
ResetBackgroundKeepDepth(c) ==
    [c EXCEPT !.background_image = DefaultImage,
              !.background_mask = DefaultMask]

\* The three calls that reset the Background Model (lines 233-235, 267-269,
\* 275-277).
ResetBackground(c) ==
    [c EXCEPT !.background_depth_map = DefaultDepth,
              !.background_image = DefaultImage,
              !.background_mask = DefaultMask]

\* The valid state of a session: validity flags with their matrices, and the
\* Background Model.
Flags(c) == <<c.cam_intrinsic_calib, c.proj_intrinsic_calib,
              c.procam_extrinsic_calib>>
Matrices(c) == <<c.cam_intrinsic, c.cam_distortion, c.proj_intrinsic,
                 c.proj_distortion, c.cam_extrinsic, c.proj_extrinsic>>
Background(c) == <<c.background_depth_map, c.background_image,
                   c.background_mask>>
DefaultBackground == <<DefaultDepth, DefaultImage, DefaultMask>>

\* struct slCalib before it is allocated (line 162).
NoCalib ==
    [cam_intrinsic_calib |-> FALSE, proj_intrinsic_calib |-> FALSE,
     procam_extrinsic_calib |-> FALSE,
     cam_intrinsic |-> "none", cam_distortion |-> "none",
     proj_intrinsic |-> "none", proj_distortion |-> "none",
     cam_extrinsic |-> "none", proj_extrinsic |-> "none",
     fundMatrx |-> "none", tables |-> "none",
     background_depth_map |-> DefaultDepth,
     background_image |-> DefaultImage,
     background_mask |-> DefaultMask]

\* Lines 161-181: flags false, every matrix freshly allocated (contents
\* uninitialised), the ray and plane tables allocated and not computed.
AllocCalib ==
    [NoCalib EXCEPT !.cam_intrinsic = "alloc", !.cam_distortion = "alloc",
                    !.proj_intrinsic = "alloc", !.proj_distortion = "alloc",
                    !.cam_extrinsic = "alloc", !.proj_extrinsic = "alloc",
                    !.fundMatrx = "empty", !.tables = "alloc"]

\* ------------------------------------------------- startup: persisted files
\* cvLoad(path) != 0: the file exists and parses.
cvLoad(f, fs) == f \in fs

\* Lines 185-194 with the second file not probed.
LoadCamIntrinsicFirstFileOnly(c, fs) ==
    IF cvLoad("cam_intrinsic", fs)
    THEN [c EXCEPT !.cam_intrinsic = "file", !.cam_distortion = "file",
                   !.cam_intrinsic_calib = TRUE]
    ELSE c

\* Lines 185-194: camera intrinsics.
LoadCamIntrinsic(c, fs) ==
    IF cvLoad("cam_intrinsic", fs) /\ cvLoad("cam_distortion", fs)
    THEN [c EXCEPT !.cam_intrinsic = "file", !.cam_distortion = "file",
                   !.cam_intrinsic_calib = TRUE]
    ELSE c

\* Lines 196-201: the fundamental matrix (no validity flag of sl_calib).
LoadFundamental(c, fs) ==
    IF cvLoad("fundamental_matrix", fs)
    THEN [c EXCEPT !.fundMatrx = "file"]
    ELSE c

\* Lines 204-213: projector intrinsics.
LoadProjIntrinsic(c, fs) ==
    IF cvLoad("proj_intrinsic", fs) /\ cvLoad("proj_distortion", fs)
    THEN [c EXCEPT !.proj_intrinsic = "file", !.proj_distortion = "file",
                   !.proj_intrinsic_calib = TRUE]
    ELSE c

\* Lines 216-227 without the test of the two intrinsic flags.
LoadProCamExtrinsicUnguarded(c, fs) ==
    IF cvLoad("cam_extrinsic", fs) /\ cvLoad("proj_extrinsic", fs)
    THEN [c EXCEPT !.cam_extrinsic = "file", !.proj_extrinsic = "file",
                   !.procam_extrinsic_calib = TRUE]
    ELSE c

\* Lines 216-227: projector-camera extrinsics, only when both intrinsics are
\* valid. The call of evaluateProCamGeometry (line 223) is commented out, so
\* the tables stay as allocated.
LoadProCamExtrinsic(c, fs) ==
    IF (c.cam_intrinsic_calib /\ c.proj_intrinsic_calib)
       /\ (cvLoad("cam_extrinsic", fs) /\ cvLoad("proj_extrinsic", fs))
    THEN [c EXCEPT !.cam_extrinsic = "file", !.proj_extrinsic = "file",
                   !.procam_extrinsic_calib = TRUE]
    ELSE c

\* Lines 183-227 in order.
LoadAll(c, fs) ==
    LoadProCamExtrinsic(
        LoadProjIntrinsic(LoadFundamental(LoadCamIntrinsic(c, fs), fs), fs),
        fs)

\* -------------------------------------- scan and calibration operations
\* evaluateProCamGeometry: recomputes cam_rays, proj_column_planes,
\* proj_row_planes and the centers from the current calibration.
evaluateProCamGeometry(c) == [c EXCEPT !.tables = "current"]

\* The tables after a calibration field changed: recomputed when the
\* extrinsics exist, otherwise left as they were.
RecomputeTables(c) ==
    IF c.procam_extrinsic_calib THEN evaluateProCamGeometry(c) ELSE c

\* runCameraCalibration: on success Kc, dc and the flag are updated together;
\* on failure nothing changes.
runCameraCalibration(c, ok) ==
    IF ok
    THEN RecomputeTables([c EXCEPT !.cam_intrinsic = "solved",
                                   !.cam_distortion = "solved",
                                   !.cam_intrinsic_calib = TRUE])
    ELSE c

\* runProjectorCalibration: on success Kp, dp and the flag are updated; with
\* simultaneous set, Kc and dc are re-estimated across the same poses.
runProjectorCalibration(c, simultaneous, ok) ==
    IF ~ok THEN c
    ELSE LET p == [c EXCEPT !.proj_intrinsic = "solved",
                            !.proj_distortion = "solved",
                            !.proj_intrinsic_calib = TRUE]
         IN  RecomputeTables(
                 IF simultaneous
                 THEN [p EXCEPT !.cam_intrinsic = "solved",
                                !.cam_distortion = "solved",
                                !.cam_intrinsic_calib = TRUE]
                 ELSE p)

\* runProCamExtrinsicCalibration requires both intrinsics.
ExtrinsicPrereq(c) == c.cam_intrinsic_calib /\ c.proj_intrinsic_calib

\* runProCamExtrinsicCalibration: on success (Rcp, tcp) and the flag are
\* updated and the geometry is evaluated; a missing prerequisite or a rejected
\* result changes nothing.
runProCamExtrinsicCalibration(c, ok) ==
    IF ExtrinsicPrereq(c) /\ ok
    THEN evaluateProCamGeometry([c EXCEPT !.cam_extrinsic = "solved",
                                          !.proj_extrinsic = "solved",
                                          !.procam_extrinsic_calib = TRUE])
    ELSE c

\* runStructuredLight: the point cloud is written under v<scan_index>; the
\* session's calibration and background are only read.
runStructuredLight(c, index, ok) == c

\* The depth maps a background scan can produce: z per pixel, the sentinel
\* where the pixel did not decode.
CapturedDepths == [Pixels -> {FLT_MAX, ZScene}]

\* runBackgroundCapture: on success the depth map is replaced by the scanned
\* z and the all-white frame is stored as the reference image.
runBackgroundCapture(c, ok, depth) ==
    IF ok
    THEN [c EXCEPT !.background_depth_map = depth,
                   !.background_image = [p \in Pixels |-> FrameWhite]]
    ELSE c

Outcome(ok) == IF ok THEN "ok" ELSE "error"

\* ------------------------------------------------------------------- main
GrayIdle == [stage |-> "idle", K |-> 0, n |-> 0, code |-> 0,
             frames |-> << >>, bits |-> << >>, valid |-> TRUE, decoded |-> 0]

\* No buffer has been allocated.
NoHeap == [held |-> 0, lost |-> 0, released |-> 0]

\* No depth sample is being tested.
KinectIdle == [stage |-> "idle", Depth |-> 0, valid |-> FALSE]

StartOfMain(fs) ==
    /\ pc = "createCamera"
    /\ returnLine = 0
    /\ exitCode = 0
    /\ files = fs
    /\ camera = "none"
    /\ capture = "off"
    /\ window = "none"
    /\ configWrites = 0
    /\ sl_calib = NoCalib
    /\ scan_index = 0
    /\ cvKey = KeyNull
    /\ dispatched = KeyNull
    /\ invoked = "notyet"
    /\ result = "none"
    /\ before = NoCalib
    /\ adapterLog = << >>
    /\ outdir = "untouched"
    /\ heap = NoHeap
    /\ lastScan = 0

\* The file systems of the command-loop specification: each sub-structure's
\* files are all present or one of them is missing.
SessionFileSystems ==
    {fs \in SUBSET CalibFiles :
        /\ "cam_distortion" \in fs
        /\ "proj_distortion" \in fs
        /\ "proj_extrinsic" \in fs
        /\ "fundamental_matrix" \in fs <=> "proj_intrinsic" \in fs}

Init ==
    /\ \E fs \in SessionFileSystems : StartOfMain(fs)
    /\ gray = GrayIdle
    /\ kinect = KinectIdle

\* return <code>; at source line <line>.
Return(line, code) ==
    /\ pc' = "done"
    /\ returnLine' = line
    /\ exitCode' = code

\* ------------------------------------------------------------ buffers
\* cvCreateMat / cvCreateImage / new: n more buffers held by a pointer.
Allocate(h, n) == [h EXCEPT !.held = @ + n]

\* The matrices the test (cvLoad(f1) != 0) && (cvLoad(f2) != 0) loads and
\* drops: the second file is probed only when the first loaded.
LostByProbe(fs, f1, f2) ==
    IF ~cvLoad(f1, fs) THEN 0 ELSE IF ~cvLoad(f2, fs) THEN 1 ELSE 2

\* Lines 187-189, 206-208, 219-221: the probe's matrices are dropped, and when
\* both files load, two more loads overwrite the pointers to the matrices
\* cvCreateMat returned.
LostByLoad(fs, f1, f2) ==
    LostByProbe(fs, f1, f2)
    + (IF cvLoad(f1, fs) /\ cvLoad(f2, fs) THEN 2 ELSE 0)

\* Lines 197-199: the probe's matrix is dropped; the second load is handed to
\* the FundamentalMatrix object.
LostByFundamental(fs) == IF cvLoad("fundamental_matrix", fs) THEN 1 ELSE 0

\* The buffers after lines 183-227, c being sl_calib before them.
HeapLoadAll(h, c, fs) ==
    LET intr == LoadProjIntrinsic(LoadCamIntrinsic(c, fs), fs)
    IN  [h EXCEPT !.lost =
            @ + LostByLoad(fs, "cam_intrinsic", "cam_distortion")
              + LostByFundamental(fs)
              + LostByLoad(fs, "proj_intrinsic", "proj_distortion")
              + (IF intr.cam_intrinsic_calib /\ intr.proj_intrinsic_calib
                 THEN LostByLoad(fs, "cam_extrinsic", "proj_extrinsic")
                 ELSE 0)]

\* Lines 329-347: delete fundMatrx, the twelve cvReleaseMat and four
\* cvReleaseImage calls release what the pointers hold.
ReleaseAll(h) == [h EXCEPT !.released = @ + h.held, !.held = 0]

\* ------------------------------------------------------- camera adapter
\* retVal = camera->Init(&sl_params), lines 113-114.
CallInit(log, retVal) ==
    Append(log, IF retVal = 0 THEN "Init=0" ELSE "Init=-1")

\* retVal = camera->StartCapture(), lines 121-122.
CallStartCapture(log, retVal) ==
    Append(log, IF retVal = 0 THEN "StartCapture=0" ELSE "StartCapture=-1")

\* A first frame that is asked for again after it came back NULL.
CallQueryFrameRetried(log, frame) ==
    IF frame THEN Append(log, "QueryFrame")
    ELSE Append(Append(log, "QueryFrame=NULL"), "QueryFrame=NULL")

\* cam_frame = camera->QueryFrame(), lines 129-130, asked once.
CallQueryFrame(log, frame) ==
    Append(log, IF frame THEN "QueryFrame" ELSE "QueryFrame=NULL")

\* The frames a scan or calibration operation grabs; consecutive successful
\* grabs are recorded once.
GrabFrames(log) ==
    IF log # << >> /\ log[Len(log)] = "QueryFrame" THEN log
    ELSE Append(log, "QueryFrame")

\* A shutdown that leaves the capture running.
CallEndCaptureSkipped(log) == log

\* retVal = camera->EndCapture(), line 319; the value is only reported.
CallEndCapture(log) == Append(log, "EndCapture")

\* Lines 62-66 (USE_CAMERA_ID selects the Kinect back-end): no device.
NoKinectFound ==
    /\ pc = "createCamera"
    /\ Return(65, 0)
    /\ UNCHANGED <<files, camera, capture, window, configWrites, sl_calib,
                   scan_index, cvKey, dispatched, invoked, result, before,
                   gray,
                   adapterLog, outdir, heap, lastScan, kinect>>

\* Lines 68-73: GetKinect returns no handle.
NoKinectHandle ==
    /\ pc = "createCamera"
    /\ Return(72, 0)
    /\ UNCHANGED <<files, camera, capture, window, configWrites, sl_calib,
                   scan_index, cvKey, dispatched, invoked, result, before,
                   gray,
                   adapterLog, outdir, heap, lastScan, kinect>>

\* Lines 46-86: the camera object is created (any back-end).
CreateCamera ==
    /\ pc = "createCamera"
    /\ camera' = "alive"
    /\ pc' = "readConfig"
    /\ UNCHANGED <<returnLine, exitCode, files, capture, window, configWrites,
                   sl_calib, scan_index, cvKey, dispatched, invoked, result,
                   before, gray,
                   adapterLog, outdir, heap, lastScan, kinect>>

\* Lines 104-109: fopen(configFile) fails.
ConfigMissing ==
    /\ pc = "readConfig"
    /\ Return(108, ExitError)
    /\ UNCHANGED <<files, camera, capture, window, configWrites, sl_calib,
                   scan_index, cvKey, dispatched, invoked, result, before,
                   gray,
                   adapterLog, outdir, heap, lastScan, kinect>>

\* Lines 98-103: readConfiguration.
ReadConfiguration ==
    /\ pc = "readConfig"
    /\ pc' = "initCamera"
    /\ UNCHANGED <<returnLine, exitCode, files, camera, capture, window,
                   configWrites, sl_calib, scan_index, cvKey, dispatched,
                   invoked, result, before, gray,
                   adapterLog, outdir, heap, lastScan, kinect>>

\* Lines 113-118: camera->Init returns non-zero.
InitFails ==
    /\ pc = "initCamera"
    /\ Return(117, ExitError)
    /\ adapterLog' = CallInit(adapterLog, ExitError)
    /\ UNCHANGED <<files, camera, capture, window, configWrites, sl_calib,
                   scan_index, cvKey, dispatched, invoked, result, before,
                   gray,
                   outdir, heap, lastScan, kinect>>

\* Lines 113-114: camera->Init returns 0.
InitCamera ==
    /\ pc = "initCamera"
    /\ pc' = "startCapture"
    /\ adapterLog' = CallInit(adapterLog, 0)
    /\ UNCHANGED <<returnLine, exitCode, files, camera, capture, window,
                   configWrites, sl_calib, scan_index, cvKey, dispatched,
                   invoked, result, before, gray,
                   outdir, heap, lastScan, kinect>>

\* Lines 121-126: camera->StartCapture returns non-zero.
StartCaptureFails ==
    /\ pc = "startCapture"
    /\ Return(125, ExitError)
    /\ adapterLog' = CallStartCapture(adapterLog, ExitError)
    /\ UNCHANGED <<files, camera, capture, window, configWrites, sl_calib,
                   scan_index, cvKey, dispatched, invoked, result, before,
                   gray,
                   outdir, heap, lastScan, kinect>>

\* Lines 121-122: camera->StartCapture returns 0.
StartCapture ==
    /\ pc = "startCapture"
    /\ capture' = "started"
    /\ pc' = "firstFrame"
    /\ adapterLog' = CallStartCapture(adapterLog, 0)
    /\ UNCHANGED <<returnLine, exitCode, files, camera, window, configWrites,
                   sl_calib, scan_index, cvKey, dispatched, invoked, result,
                   before, gray,
                   outdir, heap, lastScan, kinect>>

\* Lines 129-135: the first QueryFrame returns NULL.
NoFirstFrame ==
    /\ pc = "firstFrame"
    /\ Return(134, ExitError)
    /\ adapterLog' = CallQueryFrame(adapterLog, FALSE)
    /\ UNCHANGED <<files, camera, capture, window, configWrites, sl_calib,
                   scan_index, cvKey, dispatched, invoked, result, before,
                   gray,
                   outdir, heap, lastScan, kinect>>

\* Lines 129-143: the first frame arrives; the projector window is created.
CreateWindow ==
    /\ pc = "firstFrame"
    /\ window' = "open"
    /\ pc' = "createOutdir"
    /\ adapterLog' = CallQueryFrame(adapterLog, TRUE)
    /\ heap' = Allocate(heap, 1)
    /\ UNCHANGED <<returnLine, exitCode, files, camera, capture, configWrites,
                   sl_calib, scan_index, cvKey, dispatched, invoked, result,
                   before, gray,
                   outdir, lastScan, kinect>>

\* Lines 145-159: the last _mkdir fails.
OutputDirectoryFails ==
    /\ pc = "createOutdir"
    /\ Return(158, ExitError)
    /\ outdir' = "removed"
    /\ UNCHANGED <<files, camera, capture, window, configWrites, sl_calib,
                   scan_index, cvKey, dispatched, invoked, result, before,
                   gray,
                   adapterLog, heap, lastScan, kinect>>

\* Lines 145-181: the output directory is recreated and the calibration
\* storage allocated.
AllocateCalibration ==
    /\ pc = "createOutdir"
    /\ sl_calib' = AllocCalib
    /\ pc' = "loadCalib"
    /\ outdir' = "recreated"
    /\ heap' = Allocate(heap, 13)
    /\ UNCHANGED <<returnLine, exitCode, files, camera, capture, window,
                   configWrites, scan_index, cvKey, dispatched, invoked,
                   result, before, gray,
                   adapterLog, lastScan, kinect>>

\* Lines 183-241: the persisted calibration is loaded, the background model
\* and the scan counter initialised, and the command loop entered.
LoadCalibration ==
    /\ pc = "loadCalib"
    /\ sl_calib' = ResetBackground(LoadAll(sl_calib, files))
    /\ scan_index' = 0
    /\ cvKey' = KeyNull
    /\ before' = ResetBackground(LoadAll(sl_calib, files))
    /\ pc' = "loop"
    /\ heap' = Allocate(HeapLoadAll(heap, sl_calib, files), 3)
    /\ UNCHANGED <<returnLine, exitCode, files, camera, capture, window,
                   configWrites, dispatched, invoked, result, gray,
                   adapterLog, outdir, lastScan, kinect>>

\* ----------------------------------------------------------- command loop
\* The if / else-if chain of lines 250-299 with the p and a branches exchanged.
OperationSwapped(key) ==
    CASE key = KeyEsc -> "exit"
      [] key = KeyS -> "runStructuredLight"
      [] key = KeyB -> "runBackgroundCapture"
      [] key = KeyR -> "resetBackground"
      [] key = KeyC -> "runCameraCalibration"
      [] key = KeyP -> "runProjectorCalibration(simultaneous=true)"
      [] key = KeyA -> "runProjectorCalibration(simultaneous=false)"
      [] key = KeyE -> "runProCamExtrinsicCalibration"
      [] OTHER -> "none"

\* The chain of lines 250-299 with the s branch also taken for 'S'.
OperationEitherCase(key) ==
    CASE key = KeyEsc -> "exit"
      [] key = KeyS \/ key = KeyUpperS -> "runStructuredLight"
      [] key = KeyB -> "runBackgroundCapture"
      [] key = KeyR -> "resetBackground"
      [] key = KeyC -> "runCameraCalibration"
      [] key = KeyP -> "runProjectorCalibration(simultaneous=false)"
      [] key = KeyA -> "runProjectorCalibration(simultaneous=true)"
      [] key = KeyE -> "runProCamExtrinsicCalibration"
      [] OTHER -> "none"

\* The if / else-if chain of lines 250-299: the branch a key code selects.
Operation(key) ==
    CASE key = KeyEsc -> "exit"
      [] key = KeyS -> "runStructuredLight"
      [] key = KeyB -> "runBackgroundCapture"
      [] key = KeyR -> "resetBackground"
      [] key = KeyC -> "runCameraCalibration"
      [] key = KeyP -> "runProjectorCalibration(simultaneous=false)"
      [] key = KeyA -> "runProjectorCalibration(simultaneous=true)"
      [] key = KeyE -> "runProCamExtrinsicCalibration"
      [] OTHER -> "none"

\* Line 315: cvKey = _getch(). The s key is not typed once the scan counter
\* has reached MaxScans.
GetKey(index) ==
    cvKey' \in (IF index < MaxScans THEN Keys ELSE Keys \ {KeyS})

\* What every iteration of the loop records.
Iteration(op) ==
    /\ pc = "loop"
    /\ Operation(cvKey) = op
    /\ dispatched' = cvKey
    /\ invoked' = op
    /\ before' = sl_calib

\* A configuration write that does not happen.
WriteConfigurationSkipped == configWrites

\* Line 252: writeConfiguration(configFile, &sl_params).
WriteConfiguration == configWrites + 1

\* Lines 250-259: ESC writes the configuration and leaves the loop.
CmdExit ==
    /\ Iteration("exit")
    /\ configWrites' = WriteConfiguration
    /\ result' = "none"
    /\ pc' = "shutdown"
    /\ UNCHANGED <<returnLine, exitCode, files, camera, capture, window,
                   sl_calib, scan_index, cvKey, gray,
                   adapterLog, outdir, heap, lastScan, kinect>>

\* A scan counter that is not advanced.
NextScanIndexSame(index) == index

\* ++scan_index, line 261.
NextScanIndex(index) == index + 1

\* Lines 260-264 and 301-315: s runs the scanner under the next scan index.
CmdScan ==
    /\ Iteration("runStructuredLight")
    /\ scan_index' = NextScanIndex(scan_index)
    /\ lastScan' = NextScanIndex(scan_index)
    /\ \E ok \in BOOLEAN :
          /\ sl_calib' =
                runStructuredLight(sl_calib, NextScanIndex(scan_index), ok)
          /\ result' = Outcome(ok)
    /\ GetKey(NextScanIndex(scan_index))
    /\ adapterLog' = GrabFrames(adapterLog)
    /\ UNCHANGED <<pc, returnLine, exitCode, files, camera, capture, window,
                   configWrites, gray,
                   outdir, heap, kinect>>

\* Lines 265-272 and 301-315: b resets the background, then captures it.
CmdBackground ==
    /\ Iteration("runBackgroundCapture")
    /\ \E ok \in BOOLEAN, depth \in CapturedDepths :
          /\ sl_calib' =
                runBackgroundCapture(ResetBackground(sl_calib), ok, depth)
          /\ result' = Outcome(ok)
    /\ GetKey(scan_index)
    /\ adapterLog' = GrabFrames(adapterLog)
    /\ UNCHANGED <<pc, returnLine, exitCode, files, camera, capture, window,
                   configWrites, scan_index, gray,
                   outdir, heap, lastScan, kinect>>

\* Lines 273-279 and 301-315: r resets the background.
CmdReset ==
    /\ Iteration("resetBackground")
    /\ sl_calib' = ResetBackground(sl_calib)
    /\ result' = "ok"
    /\ GetKey(scan_index)
    /\ UNCHANGED <<pc, returnLine, exitCode, files, camera, capture, window,
                   configWrites, scan_index, gray,
                   adapterLog, outdir, heap, lastScan, kinect>>

\* Lines 280-284 and 301-315: c calibrates the camera.
CmdCamera ==
    /\ Iteration("runCameraCalibration")
    /\ \E ok \in BOOLEAN :
          /\ sl_calib' = runCameraCalibration(sl_calib, ok)
          /\ result' = Outcome(ok)
    /\ GetKey(scan_index)
    /\ adapterLog' = GrabFrames(adapterLog)
    /\ UNCHANGED <<pc, returnLine, exitCode, files, camera, capture, window,
                   configWrites, scan_index, gray,
                   outdir, heap, lastScan, kinect>>

\* Lines 285-289 and 301-315: p calibrates the projector.
CmdProjector ==
    /\ Iteration("runProjectorCalibration(simultaneous=false)")
    /\ \E ok \in BOOLEAN :
          /\ sl_calib' = runProjectorCalibration(sl_calib, FALSE, ok)
          /\ result' = Outcome(ok)
    /\ GetKey(scan_index)
    /\ adapterLog' = GrabFrames(adapterLog)
    /\ UNCHANGED <<pc, returnLine, exitCode, files, camera, capture, window,
                   configWrites, scan_index, gray,
                   outdir, heap, lastScan, kinect>>

\* Lines 290-294 and 301-315: a calibrates camera and projector together.
CmdJoint ==
    /\ Iteration("runProjectorCalibration(simultaneous=true)")
    /\ \E ok \in BOOLEAN :
          /\ sl_calib' = runProjectorCalibration(sl_calib, TRUE, ok)
          /\ result' = Outcome(ok)
    /\ GetKey(scan_index)
    /\ adapterLog' = GrabFrames(adapterLog)
    /\ UNCHANGED <<pc, returnLine, exitCode, files, camera, capture, window,
                   configWrites, scan_index, gray,
                   outdir, heap, lastScan, kinect>>

\* Lines 295-299 and 301-315: e calibrates the projector-camera alignment.
CmdExtrinsic ==
    /\ Iteration("runProCamExtrinsicCalibration")
    /\ \E ok \in BOOLEAN :
          /\ sl_calib' = runProCamExtrinsicCalibration(sl_calib, ok)
          /\ result' = Outcome(ExtrinsicPrereq(sl_calib) /\ ok)
    /\ GetKey(scan_index)
    /\ adapterLog' = GrabFrames(adapterLog)
    /\ UNCHANGED <<pc, returnLine, exitCode, files, camera, capture, window,
                   configWrites, scan_index, gray,
                   outdir, heap, lastScan, kinect>>

\* Lines 250-315 with no branch taken: NULL or an unhandled key code.
CmdNone ==
    /\ Iteration("none")
    /\ result' = "none"
    /\ GetKey(scan_index)
    /\ UNCHANGED <<pc, returnLine, exitCode, files, camera, capture, window,
                   configWrites, sl_calib, scan_index, gray,
                   adapterLog, outdir, heap, lastScan, kinect>>

\* Lines 318-352: EndCapture, delete camera, release the buffers, destroy the
\* window, return 0.
Shutdown ==
    /\ pc = "shutdown"
    /\ capture' = "ended"
    /\ camera' = "deleted"
    /\ window' = "destroyed"
    /\ Return(352, 0)
    /\ adapterLog' = CallEndCapture(adapterLog)
    /\ heap' = ReleaseAll(heap)
    /\ UNCHANGED <<files, configWrites, sl_calib, scan_index, cvKey,
                   dispatched, invoked, result, before, gray,
                   outdir, lastScan, kinect>>

Startup ==
    \/ NoKinectFound
    \/ NoKinectHandle
    \/ CreateCamera
    \/ ConfigMissing
    \/ ReadConfiguration
    \/ InitFails
    \/ InitCamera
    \/ StartCaptureFails
    \/ StartCapture
    \/ NoFirstFrame
    \/ CreateWindow
    \/ OutputDirectoryFails
    \/ AllocateCalibration
    \/ LoadCalibration

Next ==
    \/ Startup
    \/ CmdExit
    \/ CmdScan
    \/ CmdBackground
    \/ CmdReset
    \/ CmdCamera
    \/ CmdProjector
    \/ CmdJoint
    \/ CmdExtrinsic
    \/ CmdNone
    \/ Shutdown

Spec == Init /\ [][Next]_vars

\* A session started on any file system in which no command is carried out:
\* the loop is entered and left by ESC.
InitStartup ==
    /\ \E fs \in SUBSET CalibFiles : StartOfMain(fs)
    /\ gray = GrayIdle
    /\ kinect = KinectIdle

NextStartup ==
    \/ Startup
    \/ CmdNone
    \/ CmdExit
    \/ Shutdown

SpecStartup == InitStartup /\ [][NextStartup]_vars

\* ------------------------------------------------------ Gray-code pipeline
\* Decoder thresholds: direct-vs-inverse contrast and minimum brightness.
Delta == 20
Beta == 40
\* Intensities of a projected white and black stripe seen by a noiseless
\* camera.
White == 255
Black == 0

RECURSIVE Pow2(_)
Pow2(k) == IF k = 0 THEN 1 ELSE 2 * Pow2(k - 1)

\* Bit k of x.
Bit(x, k) == (x \div Pow2(k)) % 2

\* Bitwise exclusive or of two naturals.
RECURSIVE Xor(_, _)
Xor(a, b) ==
    IF a = 0 /\ b = 0 THEN 0
    ELSE (((a % 2) + (b % 2)) % 2) + 2 * Xor(a \div 2, b \div 2)

\* A Gray code built with the shift in the wrong direction.
GrayCodeShiftLeft(n) == Xor(n, 2 * n)

\* G(n) = n XOR (n >> 1).
GrayCode(n) == Xor(n, n \div 2)

\* The direct / inverse frame pair that projects bit k of a code, as the
\* camera pixel lit by that projector column sees it.
FramePair(code, k) ==
    IF Bit(code, k) = 1 THEN <<White, Black>> ELSE <<Black, White>>

Max(a, b) == IF a > b THEN a ELSE b
Abs(a) == IF a < 0 THEN -a ELSE a

\* A pixel is white iff the direct frame is brighter than the inverse by more
\* than Delta and the pair is brighter than Beta.
IsWhite(pair) == pair[1] > pair[2] + Delta /\ Max(pair[1], pair[2]) > Beta

\* A bit decision is ambiguous when the contrast is at most Delta or the whole
\* pair is too dark.
IsAmbiguous(pair) ==
    Abs(pair[1] - pair[2]) <= Delta \/ Max(pair[1], pair[2]) <= Beta

\* A conversion that takes the Gray bits for the binary bits.
RECURSIVE GrayToBinaryNoChain(_, _)
GrayToBinaryNoChain(g, acc) ==
    IF g = << >> THEN acc
    ELSE GrayToBinaryNoChain(Tail(g), 2 * acc + Head(g))

\* Gray to binary over the decoded bits, most significant first:
\* b_{K-1} = g_{K-1}; b_k = b_{k+1} XOR g_k. acc holds the binary bits so far,
\* whose lowest bit is b_{k+1}.
RECURSIVE GrayToBinary(_, _)
GrayToBinary(g, acc) ==
    IF g = << >> THEN acc
    ELSE GrayToBinary(Tail(g), 2 * acc + (((acc % 2) + Head(g)) % 2))

\* A pattern sequence for K bits of projector coordinate n is about to be
\* generated.
GrayStart(K, n) ==
    [stage |-> "encode", K |-> K, n |-> n, code |-> 0, frames |-> << >>,
     bits |-> << >>, valid |-> TRUE, decoded |-> 0]

\* Pattern generator: the Gray code of the coordinate.
Encode ==
    /\ gray.stage = "encode"
    /\ gray' = [gray EXCEPT !.code = GrayCode(gray.n), !.stage = "project"]
    /\ UNCHANGED <<mainVars, kinect>>

\* Pattern generator and acquisition: the next bit's direct / inverse pair is
\* projected and captured, most significant bit first.
Project ==
    /\ gray.stage = "project"
    /\ Len(gray.frames) < gray.K
    /\ gray' = [gray EXCEPT !.frames =
                   Append(@, FramePair(gray.code,
                                       gray.K - 1 - Len(gray.frames)))]
    /\ UNCHANGED <<mainVars, kinect>>

\* Decoder: the bit decision of the next captured pair, in projection order.
DecodeBit ==
    /\ gray.stage = "project"
    /\ Len(gray.frames) = gray.K
    /\ Len(gray.bits) < gray.K
    /\ LET pair == gray.frames[Len(gray.bits) + 1]
       IN  gray' = [gray EXCEPT
                       !.bits = Append(@, IF IsWhite(pair) THEN 1 ELSE 0),
                       !.valid = @ /\ ~IsAmbiguous(pair)]
    /\ UNCHANGED <<mainVars, kinect>>

\* Decoder: Gray to binary once all bits are accumulated.
Convert ==
    /\ gray.stage = "project"
    /\ Len(gray.bits) = gray.K
    /\ gray' = [gray EXCEPT !.decoded = GrayToBinary(gray.bits, 0),
                            !.stage = "done"]
    /\ UNCHANGED <<mainVars, kinect>>

InitGray ==
    /\ StartOfMain({})
    /\ kinect = KinectIdle
    /\ \E K \in 1..MaxK : \E n \in 0..(Pow2(K) - 1) : gray = GrayStart(K, n)

NextGray ==
    \/ Encode
    \/ Project
    \/ DecodeBit
    \/ Convert

SpecGray == InitGray /\ [][NextGray]_vars

\* --------------------------------------------------------- Kinect utility
\* The largest value of the unsigned short parameter Depth.
UShortMax == 65535
\* 0x07ff, the reading of a pixel with no depth.
DepthSentinel == 2047

\* A validity test that rejects only the zero reading.
Kinect_IsDepthValidNonZero(Depth) == Depth > 0

\* bool Kinect_IsDepthValid(unsigned short Depth).
Kinect_IsDepthValid(Depth) ==
    IF Depth > 0 /\ Depth # DepthSentinel THEN TRUE ELSE FALSE

\* A depth reading about to be tested.
KinectInput(d) == [stage |-> "input", Depth |-> d, valid |-> FALSE]

\* The call Kinect_IsDepthValid(Depth).
CheckDepth ==
    /\ kinect.stage = "input"
    /\ kinect' = [kinect EXCEPT !.valid = Kinect_IsDepthValid(kinect.Depth),
                                !.stage = "checked"]
    /\ UNCHANGED <<mainVars, gray>>

InitDepth ==
    /\ StartOfMain({})
    /\ gray = GrayIdle
    /\ \E d \in 0..UShortMax : kinect = KinectInput(d)

NextDepth == CheckDepth

SpecDepth == InitDepth /\ [][NextDepth]_vars

\* ------------------------------------------------------------- properties
\* The return statements of the fatal startup errors.
FatalReturns == {65, 72, 108, 117, 125, 134, 158}
\* The return statement of the clean exit.
CleanReturn == 352

Returned == pc = "done"
AtLoopEntry == pc = "loop" /\ invoked = "notyet"
Has(c, a, b) == a \in c /\ b \in c

\* C1: every run of main that ends with a fatal startup error returns a
\* non-zero exit code, and a run ended by ESC returns 0.
C1_ExitCodes ==
    Returned =>
        /\ returnLine \in FatalReturns => exitCode # 0
        /\ returnLine = CleanReturn => exitCode = 0

\* C2: each of the keys s, b, r, c, p, a, e dispatches exactly its documented
\* operation and no other, and ESC is the only key that ends the loop.
C2_KeyDispatch ==
    /\ invoked # "notyet" =>
          /\ dispatched = KeyS <=> invoked = "runStructuredLight"
          /\ dispatched = KeyB <=> invoked = "runBackgroundCapture"
          /\ dispatched = KeyR <=> invoked = "resetBackground"
          /\ dispatched = KeyC <=> invoked = "runCameraCalibration"
          /\ dispatched = KeyP <=>
                invoked = "runProjectorCalibration(simultaneous=false)"
          /\ dispatched = KeyA <=>
                invoked = "runProjectorCalibration(simultaneous=true)"
          /\ dispatched = KeyE <=> invoked = "runProCamExtrinsicCalibration"
          /\ dispatched = KeyEsc <=> invoked = "exit"
    /\ (pc = "shutdown" \/ (Returned /\ returnLine = CleanReturn))
          <=> (invoked # "notyet" /\ dispatched = KeyEsc)

C2_Witness ==
    /\ pc = "loop"
    /\ dispatched = KeyA
    /\ invoked = "runProjectorCalibration(simultaneous=true)"
    /\ result = "ok"
    /\ before.cam_intrinsic = "alloc"
    /\ sl_calib.cam_intrinsic = "solved"
    /\ sl_calib.proj_intrinsic = "solved"

\* C3: in every state, procam_extrinsic_calib implies cam_intrinsic_calib and
\* proj_intrinsic_calib.
C3_ExtrinsicNeedsIntrinsics ==
    sl_calib.procam_extrinsic_calib =>
        sl_calib.cam_intrinsic_calib /\ sl_calib.proj_intrinsic_calib

C3_Witness ==
    /\ pc = "loop"
    /\ sl_calib.procam_extrinsic_calib
    /\ sl_calib.cam_extrinsic = "solved"
    /\ sl_calib.cam_intrinsic = "file"
    /\ sl_calib.proj_intrinsic = "solved"

\* C4 as stated: when the command loop is entered, each of the three
\* sub-structures has its flag true exactly when all its files loaded.
C4_FlagsFollowFiles ==
    AtLoopEntry =>
        /\ sl_calib.cam_intrinsic_calib
              <=> Has(files, "cam_intrinsic", "cam_distortion")
        /\ sl_calib.proj_intrinsic_calib
              <=> Has(files, "proj_intrinsic", "proj_distortion")
        /\ sl_calib.procam_extrinsic_calib
              <=> Has(files, "cam_extrinsic", "proj_extrinsic")

\* C4 amended: when the command loop is entered, each intrinsic flag is true
\* exactly when both its files loaded, and the extrinsic flag is true exactly
\* when both its files load and both intrinsic flags were set.
C4_FlagsFollowFilesAndPrerequisite ==
    AtLoopEntry =>
        /\ sl_calib.cam_intrinsic_calib
              <=> Has(files, "cam_intrinsic", "cam_distortion")
        /\ sl_calib.proj_intrinsic_calib
              <=> Has(files, "proj_intrinsic", "proj_distortion")
        /\ sl_calib.procam_extrinsic_calib
              <=> /\ Has(files, "cam_extrinsic", "proj_extrinsic")
                  /\ sl_calib.cam_intrinsic_calib
                  /\ sl_calib.proj_intrinsic_calib

C4_Witness ==
    /\ AtLoopEntry
    /\ sl_calib.cam_intrinsic_calib
    /\ "proj_intrinsic" \in files
    /\ "proj_distortion" \notin files
    /\ ~sl_calib.proj_intrinsic_calib
    /\ Has(files, "cam_extrinsic", "proj_extrinsic")
    /\ ~sl_calib.procam_extrinsic_calib

\* C5: a command whose operation ends with a recoverable error leaves the
\* validity flags, their matrices and the Background Model as they were when
\* the command was dispatched.
C5_ErrorKeepsValidState ==
    result = "error" =>
        /\ Flags(sl_calib) = Flags(before)
        /\ Matrices(sl_calib) = Matrices(before)
        /\ Background(sl_calib) = Background(before)

\* C6: whenever procam_extrinsic_calib is true and a scan command can be
\* dispatched, the ray and plane tables have been recomputed since the last
\* change of the calibration.
C6_TablesCurrent ==
    (pc = "loop" /\ sl_calib.procam_extrinsic_calib) =>
        sl_calib.tables = "current"

\* C7: after r the depth map is FLT_MAX everywhere, the reference image zero
\* and the mask 255, and a second r changes nothing.
C7_ResetRestoresDefaults ==
    invoked = "resetBackground" =>
        /\ \A p \in Pixels :
              /\ sl_calib.background_depth_map[p] = FLT_MAX
              /\ sl_calib.background_image[p] = 0
              /\ sl_calib.background_mask[p] = MaskOn
        /\ ResetBackground(sl_calib) = sl_calib

C7_Witness ==
    /\ invoked = "resetBackground"
    /\ scan_index > 0
    /\ \E p \in Pixels : before.background_depth_map[p] = ZScene
    /\ \E p \in Pixels : before.background_image[p] = FrameWhite

\* C8: when main returns after the camera was created and the projector
\* window opened, EndCapture has been called if StartCapture succeeded, the
\* camera is deleted and the window destroyed.
C8_ResourcesReleased ==
    (Returned /\ camera # "none" /\ window # "none") =>
        /\ capture # "started"
        /\ camera = "deleted"
        /\ window = "destroyed"

\* C9: the configuration is written exactly once in a run ended by ESC,
\* before main returns, and never in a run that ends with a fatal startup
\* error or while the loop accepts commands.
C9_ConfigurationWrittenOnce ==
    /\ (pc = "shutdown" \/ (Returned /\ returnLine = CleanReturn))
          => configWrites = 1
    /\ ~(pc = "shutdown" \/ (Returned /\ returnLine = CleanReturn))
          => configWrites = 0

C9_Witness ==
    /\ Returned
    /\ returnLine = CleanReturn
    /\ configWrites = 1
    /\ scan_index > 0

\* C10: for every K and every n in [0, 2^K), the Gray code of n, projected as
\* K direct / inverse pairs and decoded bit by bit, converts back to n.
C10_GrayRoundTrip ==
    gray.stage = "done" => (gray.decoded = gray.n /\ gray.valid)

C10_Witness ==
    /\ gray.stage = "done"
    /\ gray.K = 3
    /\ gray.n = 5
    /\ gray.code = 7
    /\ gray.bits = <<1, 1, 1>>
    /\ gray.decoded = 5

InitCalls == {"Init=0", "Init=-1"}
StartCalls == {"StartCapture=0", "StartCapture=-1"}
FrameCalls == {"QueryFrame", "QueryFrame=NULL"}
FrameOperations ==
    {"runStructuredLight", "runBackgroundCapture", "runCameraCalibration",
     "runProjectorCalibration(simultaneous=false)",
     "runProjectorCalibration(simultaneous=true)",
     "runProCamExtrinsicCalibration"}
LoopEnded == pc = "shutdown" \/ (Returned /\ returnLine = CleanReturn)
Count(log, calls) == Cardinality({i \in 1..Len(log) : log[i] \in calls})

EarlyFatalReturns == {108, 117, 125, 134}

\* C12: a run ended by ConfigMissing, CameraInitFailed or FrameUnavailable
\* returns before the output directory is removed and recreated, before any
\* calibration file is loaded and without the command loop being entered; the
\* first frame is asked for once.
C12_EarlyFatalErrors ==
    (Returned /\ returnLine \in EarlyFatalReturns) =>
        /\ outdir = "untouched"
        /\ sl_calib = NoCalib
        /\ heap = NoHeap
        /\ invoked = "notyet"
        /\ returnLine = 134 => Count(adapterLog, FrameCalls) = 1

C12_Witness ==
    /\ Returned
    /\ returnLine = 134
    /\ exitCode = ExitError
    /\ adapterLog = <<"Init=0", "StartCapture=0", "QueryFrame=NULL">>
    /\ outdir = "untouched"

\* C13: on a clean exit every matrix and image buffer allocated or loaded
\* during the session has been released: none is still allocated.
C13_BuffersReleased ==
    (Returned /\ returnLine = CleanReturn) =>
        (heap.held = 0 /\ heap.lost = 0)

\* C14: the scan index passed to runStructuredLight is 1 for the first s
\* command and grows by exactly 1 with each later s command, whether or not
\* the scan succeeded; no other key changes it.
C14_ScanIndex ==
    /\ [](AtLoopEntry => (scan_index = 0 /\ lastScan = 0))
    /\ [][pc = "loop" =>
            IF cvKey = KeyS
            THEN scan_index' = scan_index + 1 /\ lastScan' = scan_index + 1
            ELSE scan_index' = scan_index /\ lastScan' = lastScan]_vars

C14_Witness ==
    /\ pc = "loop"
    /\ dispatched = KeyS
    /\ invoked = "runStructuredLight"
    /\ result = "error"
    /\ scan_index = 2
    /\ lastScan = 2

\* C15: b resets the Background Model before runBackgroundCapture runs, so
\* the Background Model after b is what that capture makes of the startup
\* defaults, whatever the Background Model was before: two sessions that
\* differ only in it and capture the same have the same Background Model.
C15_BackgroundFromCaptureAlone ==
    invoked = "runBackgroundCapture" =>
        \E depth \in CapturedDepths :
            Background(sl_calib) =
                Background(runBackgroundCapture(AllocCalib, result = "ok",
                                                depth))

C15_Witness ==
    /\ invoked = "runBackgroundCapture"
    /\ result = "ok"
    /\ before.background_depth_map = [p \in Pixels |-> ZScene]
    /\ sl_calib.background_depth_map # before.background_depth_map
    /\ sl_calib.background_image = before.background_image

HandledKeys == {KeyEsc, KeyS, KeyB, KeyR, KeyC, KeyP, KeyA, KeyE}

\* C16: a keystroke that matches none of the handled key codes invokes no
\* operation and leaves the calibration, the Background Model and the scan
\* index unchanged; the loop then waits for the next keystroke.
C16_UnhandledKey ==
    [][(pc = "loop" /\ cvKey \notin HandledKeys) =>
          /\ invoked' = "none"
          /\ sl_calib' = sl_calib
          /\ scan_index' = scan_index
          /\ lastScan' = lastScan
          /\ adapterLog' = adapterLog
          /\ pc' = "loop"
          /\ cvKey' \in Keys]_vars

C16_Witness ==
    /\ pc = "loop"
    /\ dispatched = KeyUpperS
    /\ invoked = "none"
    /\ scan_index > 0
    /\ sl_calib.cam_intrinsic_calib
    /\ sl_calib.background_depth_map = [p \in Pixels |-> ZScene]

\* C17: Kinect_IsDepthValid(d) is true for exactly the 16-bit depth values d
\* other than 0 and 0x07FF (2047).
C17_DepthValid ==
    kinect.stage = "checked" =>
        (kinect.valid <=> (kinect.Depth # 0 /\ kinect.Depth # 2047))

C17_Witness ==
    /\ kinect.stage = "checked"
    /\ kinect.Depth = 2047
    /\ ~kinect.valid

====
